---- MODULE Spec2Model ----
(***************************************************************************)
(* Model of the three pages of the repository:                             *)
(*   Rubaisha's Birthday/script.js  (typewriter status log, scene player)  *)
(*   Hisham's Birthday/script.js    (preloader, typewriter, music player)  *)
(*   Experiment/script.js           (ghost text reveal, start overlay)     *)
(* One behaviour of the model is one visit of one page: `page` is chosen   *)
(* initially and never changes.  Text is modelled by TLA+ strings, arrays  *)
(* are sequences read with the source's 0-based indices through At.        *)
(*                                                                         *)
(* The page markup is not part of the sources: every element the scripts   *)
(* look up by id is taken to exist, with empty text, no inline style and   *)
(* the play button labelled "Play Song".  The canvas rain, the blinking    *)
(* tab title, the delayed message reveal and the memory fragments write    *)
(* only to sinks that nothing modelled here reads; they are left out.  The *)
(* queue, the scene chain and the number of ghost lines are inputs: the    *)
(* sources' own values and small test values.                              *)
(***************************************************************************)
EXTENDS Integers, Sequences, FiniteSets, TLC

VARIABLES
    page,            \* which of the three scripts is running
    loaded,          \* DOMContentLoaded has been dispatched
    \* --- typewriter (Rubaisha 73-106, Hisham 75-90)
    logMessages,     \* the message queue
    messageIndex,
    charIndex,
    isDeleting,
    statusText,      \* statusLogElement.textContent
    statusTimer,     \* delay of the pending setTimeout(typeStatus, d); 0 = none
    statusPending,   \* number of setTimeout(typeStatus, d) not yet fired
    cycles,          \* completed type-then-delete cycles (observer)
    ticks,           \* typeStatus calls so far, counted up to MaxTicks (observer)
    \* --- scene player (Rubaisha 107-161)
    scenes,          \* the scene chain
    currentScene,
    sceneImage,      \* sceneImage.src
    dialogueBox,     \* dialogueBox.textContent, a sequence of characters
    nextBtnDisplay,  \* nextBtn.style.display
    nextBtnOnclick,  \* index of the scene captured by nextBtn.onclick; Null = unset
    openingScreen,   \* opening-screen style.display
    gameContainer,   \* game-container style.display
    windowLoaded,    \* window.onload has run
    plays,           \* number of play() calls so far on each media element (observer)
    shown,           \* indices passed to showScene, in order (observer)
    clicks,          \* activations of the continue control after start (observer)
    \* --- media playback, all pages
    playOutcome,     \* what became of the most recent play() call so far
    console,         \* messages written by console.log / console.warn
    playPending,     \* play() promises with a .catch that are not settled yet
    playAborted,     \* queued tasks that reject a promise taken by pause()
    catchJobs,       \* .catch reactions queued as microtasks
    songRefused,     \* some play() with a .catch was refused at the call (observer)
    songEnded,       \* the song played to its end since the last play() (observer)
    dispatching,     \* id of the target of the click on its way to document.body; "" = none
    \* --- Hisham preloader and music player (Hisham 3-30, 105-124)
    lineIndex,
    preloaderText,   \* preloaderText.innerHTML
    preloaderFade,   \* preloader carries the class fade-out
    preloaderDisplay,\* preloader.style.display
    mainHidden,      \* main-content carries the class hidden
    introTimer,      \* delay of the pending preloader timeout; 0 = none
    mainStarted,     \* startMainContent has run
    songPaused,      \* song.paused
    playBtnText,     \* playBtn.textContent
    onceArmed,       \* the { once: true } body click listener is still registered
    introLog,        \* the lines written to preloaderText, in order (observer)
    mainStarts,      \* number of calls of startMainContent (observer)
    \* --- Experiment (Experiment 1-26)
    ghostCount,      \* ghostLines.length
    revealed,        \* indices of ghost lines whose opacity is 1
    revealI,         \* the script's variable i
    revealTimer,     \* delay of the pending setTimeout(revealText, d); 0 = none
    overlayDisplay,  \* overlay.style.display
    bgVolume,        \* bgAudio.volume, in tenths
    \* --- interactive heart (Rubaisha 36-48, Hisham 58-68)
    heartBeating,    \* the heart carries the class beating
    screenGlitch,    \* the container carries the class screen-glitch (Hisham)
    heartPending,    \* number of 500 ms removal timeouts not yet fired
    heartClicks      \* clicks on the heart so far (observer)

twVars    == <<logMessages, messageIndex, charIndex, isDeleting, statusText,
               statusTimer, statusPending, cycles, ticks>>
sceneVars == <<scenes, currentScene, sceneImage, dialogueBox, nextBtnDisplay,
               nextBtnOnclick, openingScreen, gameContainer, windowLoaded, shown,
               clicks>>
mediaVars == <<plays, playOutcome, console>>
hisVars   == <<lineIndex, preloaderText, preloaderFade, preloaderDisplay, mainHidden,
               introTimer, mainStarted, songPaused, playBtnText, onceArmed,
               introLog, mainStarts>>
expVars   == <<ghostCount, revealed, revealI, revealTimer, overlayDisplay, bgVolume>>
promiseVars == <<playPending, playAborted, catchJobs, songRefused, songEnded>>
heartVars == <<heartBeating, screenGlitch, heartPending, heartClicks>>
vars      == <<page, loaded, twVars, sceneVars, mediaVars, hisVars, expVars,
               heartVars, promiseVars, dispatching>>

Null == -1

\* The media elements of the three pages, and the record of a play() call.
SceneSounds == {"whisper", "door", "scream"}
SoundIds == SceneSounds \cup {"clickSound", "background-song", "bg-audio"}
NoPlays == [id \in SoundIds |-> 0]
Played(p, id) == [p EXCEPT ![id] = @ + 1]

\* A task starts only when the microtask queue is empty: a queued .catch
\* reaction runs before any other listener or timeout of its page.
NoMicrotask == catchJobs = 0

\* A timeout callback, or the dispatch of a new event, starts only when
\* nothing else runs: no reaction is queued and no click is on its way from
\* its target to document.body.
TaskMayStart == NoMicrotask /\ dispatching = ""

\* arr[idx] of the source, 0-based
At(arr, idx) == arr[idx + 1]

Min(a, b) == IF a < b THEN a ELSE b
Max(a, b) == IF a > b THEN a ELSE b

\* String.prototype.substring(start, end): both arguments are clamped to
\* [0, length] and swapped when start > end.
substring(s, start, end) ==
    LET a  == Max(0, Min(start, Len(s)))
        b  == Max(0, Min(end, Len(s)))
        lo == Min(a, b)
        hi == Max(a, b)
    IN  SubSeq(s, lo + 1, hi)

(***************************************************************************)
(* Bounds                                                                  *)
(***************************************************************************)
MaxQueue  == 2   \* longest test queue
MaxCalls  == 4   \* showScene calls, and play() calls, followed per behaviour
MaxLines  == 3   \* most ghost lines on the Experiment page
MaxTicks  == 8   \* typeStatus calls followed, and counted, per behaviour
MaxHeartClicks == 2  \* most clicks on the heart in one visit
MaxOverrun == 2  \* ticks followed, past the observers' count, beyond a message's end

(***************************************************************************)
(* Typewriter                                                              *)
(***************************************************************************)
TypingDelay   == 100
DeletingDelay == 50
PauseDelay    == 2000

RubaishaMessages ==
    << "// loading memory: ruby_bday.dat",
       "// connection unstable...",
       "// running nostalgia protocol...",
       "// happy_birthday.exe executed." >>

HishamMessages ==
    << "// connection unstable...",
       "// nostalgia protocol running...",
       "// happy_birthday.exe executed." >>

\* Messages of the test queues: the empty string, which no queue of the
\* sources holds but the code accepts, and a message of one character.
TestMessages == {"", "a"}

\* The queue of the scenario of spec.md section 8.
ScenarioQueue == <<"a", "bb">>

RECURSIVE SeqsUpTo(_, _)
SeqsUpTo(S, n) ==
    IF n = 0 THEN {<<>>}
    ELSE LET shorter == SeqsUpTo(S, n - 1)
         IN  shorter \cup {Append(q, m) : q \in {r \in shorter : Len(r) = n - 1}, m \in S}

TestQueues ==
    {q \in SeqsUpTo(TestMessages, MaxQueue) : Len(q) >= 1} \cup {ScenarioQueue}

Queues(p) ==
    CASE p = "Rubaisha" -> {RubaishaMessages} \cup TestQueues
      [] p = "Hisham"   -> {HishamMessages} \cup TestQueues
      [] OTHER          -> {<<>>}

\* Mutant of typeStatus_Rubaisha: messageIndex advances when the message has
\* been typed out instead of when it has been deleted.
typeStatus_Rubaisha_AdvanceOnType(q, st) ==
    LET currentMessage == At(q, st.messageIndex)
    IN  IF st.isDeleting
        THEN LET ci  == st.charIndex - 1
                 del == IF ci = 0 THEN FALSE ELSE st.isDeleting
             IN  [messageIndex |-> st.messageIndex, charIndex |-> ci, isDeleting |-> del,
                  text |-> substring(currentMessage, 0, st.charIndex - 1),
                  timeouts |-> 1, delay |-> IF del THEN DeletingDelay ELSE TypingDelay]
        ELSE LET ci == st.charIndex + 1
             IN  IF ci = Len(currentMessage)
                 THEN [messageIndex |-> (st.messageIndex + 1) % Len(q), charIndex |-> ci,
                       isDeleting |-> TRUE,
                       text |-> substring(currentMessage, 0, st.charIndex + 1),
                       timeouts |-> 1, delay |-> PauseDelay]
                 ELSE [messageIndex |-> st.messageIndex, charIndex |-> ci,
                       isDeleting |-> st.isDeleting,
                       text |-> substring(currentMessage, 0, st.charIndex + 1),
                       timeouts |-> 1, delay |-> TypingDelay]

\* Mutant of typeStatus_Rubaisha: the two operands of isDeleting ? 50 : 100
\* are exchanged.
typeStatus_Rubaisha_SwappedDelays(q, st) ==
    LET currentMessage == At(q, st.messageIndex)
    IN  IF st.isDeleting
        THEN LET ci  == st.charIndex - 1
                 del == IF ci = 0 THEN FALSE ELSE st.isDeleting
                 mi  == IF ci = 0 THEN (st.messageIndex + 1) % Len(q)
                                  ELSE st.messageIndex
             IN  [messageIndex |-> mi, charIndex |-> ci, isDeleting |-> del,
                  text |-> substring(currentMessage, 0, st.charIndex - 1),
                  timeouts |-> 1, delay |-> IF del THEN TypingDelay ELSE DeletingDelay]
        ELSE LET ci == st.charIndex + 1
             IN  IF ci = Len(currentMessage)
                 THEN [messageIndex |-> st.messageIndex, charIndex |-> ci,
                       isDeleting |-> TRUE,
                       text |-> substring(currentMessage, 0, st.charIndex + 1),
                       timeouts |-> 1, delay |-> PauseDelay]
                 ELSE [messageIndex |-> st.messageIndex, charIndex |-> ci,
                       isDeleting |-> st.isDeleting,
                       text |-> substring(currentMessage, 0, st.charIndex + 1),
                       timeouts |-> 1, delay |-> DeletingDelay]

\* Mutant of typeStatus_Rubaisha: the return after setTimeout(typeStatus, 2000)
\* is missing, so the tick that completes the message falls through to the
\* second setTimeout.
typeStatus_Rubaisha_NoReturn(q, st) ==
    LET currentMessage == At(q, st.messageIndex)
    IN  IF st.isDeleting
        THEN LET ci  == st.charIndex - 1
                 del == IF ci = 0 THEN FALSE ELSE st.isDeleting
                 mi  == IF ci = 0 THEN (st.messageIndex + 1) % Len(q)
                                  ELSE st.messageIndex
             IN  [messageIndex |-> mi, charIndex |-> ci, isDeleting |-> del,
                  text |-> substring(currentMessage, 0, st.charIndex - 1),
                  timeouts |-> 1,
                  delay |-> IF del THEN DeletingDelay ELSE TypingDelay]
        ELSE LET ci == st.charIndex + 1
             IN  IF ci = Len(currentMessage)
                 THEN [messageIndex |-> st.messageIndex, charIndex |-> ci,
                       isDeleting |-> TRUE,
                       text |-> substring(currentMessage, 0, st.charIndex + 1),
                       timeouts |-> 2, delay |-> DeletingDelay]
                 ELSE [messageIndex |-> st.messageIndex, charIndex |-> ci,
                       isDeleting |-> st.isDeleting,
                       text |-> substring(currentMessage, 0, st.charIndex + 1),
                       timeouts |-> 1, delay |-> TypingDelay]

\* One invocation of typeStatus of the Rubaisha page on the typewriter state
\* st = [messageIndex, charIndex, isDeleting]; the result adds the text
\* written to the status element, the number of setTimeout(typeStatus, d)
\* calls made on the path taken and the delay passed to the last of them.
typeStatus_Rubaisha(q, st) ==
    LET currentMessage == At(q, st.messageIndex)
    IN  IF st.isDeleting
        THEN LET text == substring(currentMessage, 0, st.charIndex - 1)
                 ci   == st.charIndex - 1
                 del  == IF ci = 0 THEN FALSE ELSE st.isDeleting
                 mi   == IF ci = 0 THEN (st.messageIndex + 1) % Len(q)
                                   ELSE st.messageIndex
             IN  [messageIndex |-> mi, charIndex |-> ci, isDeleting |-> del,
                  text |-> text,
                  timeouts |-> 1, delay |-> IF del THEN DeletingDelay ELSE TypingDelay]
        ELSE LET text == substring(currentMessage, 0, st.charIndex + 1)
                 ci   == st.charIndex + 1
             IN  IF ci = Len(currentMessage)
                 THEN [messageIndex |-> st.messageIndex, charIndex |-> ci,
                       isDeleting |-> TRUE, text |-> text, timeouts |-> 1, delay |-> PauseDelay]
                 ELSE [messageIndex |-> st.messageIndex, charIndex |-> ci,
                       isDeleting |-> st.isDeleting, text |-> text,
                       timeouts |-> 1, delay |-> IF st.isDeleting THEN DeletingDelay ELSE TypingDelay]

\* Mutant of typeStatus_Hisham: the end of typing is detected one tick late
\* (charIndex compared with the length before it is incremented).
typeStatus_Hisham_LateStop(q, st) ==
    LET currentMessage == At(q, st.messageIndex)
    IN  IF st.isDeleting
        THEN LET ci  == st.charIndex - 1
                 del == IF ci = 0 THEN FALSE ELSE st.isDeleting
                 mi  == IF ci = 0 THEN (st.messageIndex + 1) % Len(q)
                                  ELSE st.messageIndex
             IN  [messageIndex |-> mi, charIndex |-> ci, isDeleting |-> del,
                  text |-> substring(currentMessage, 0, st.charIndex),
                  timeouts |-> 1, delay |-> IF del THEN DeletingDelay ELSE TypingDelay]
        ELSE LET ci == st.charIndex + 1
             IN  IF st.charIndex = Len(currentMessage)
                 THEN [messageIndex |-> st.messageIndex, charIndex |-> ci,
                       isDeleting |-> TRUE,
                       text |-> substring(currentMessage, 0, st.charIndex),
                       timeouts |-> 1, delay |-> PauseDelay]
                 ELSE [messageIndex |-> st.messageIndex, charIndex |-> ci,
                       isDeleting |-> st.isDeleting,
                       text |-> substring(currentMessage, 0, st.charIndex),
                       timeouts |-> 1, delay |-> TypingDelay]

\* Mutant of typeStatus_Hisham: messageIndex is not advanced when the message
\* has been deleted.
typeStatus_Hisham_NoAdvance(q, st) ==
    LET currentMessage == At(q, st.messageIndex)
    IN  IF st.isDeleting
        THEN LET ci  == st.charIndex - 1
                 del == IF ci = 0 THEN FALSE ELSE st.isDeleting
             IN  [messageIndex |-> st.messageIndex, charIndex |-> ci, isDeleting |-> del,
                  text |-> substring(currentMessage, 0, st.charIndex),
                  timeouts |-> 1,
                  delay |-> IF del THEN DeletingDelay ELSE TypingDelay]
        ELSE LET ci == st.charIndex + 1
             IN  IF ci = Len(currentMessage)
                 THEN [messageIndex |-> st.messageIndex, charIndex |-> ci,
                       isDeleting |-> TRUE,
                       text |-> substring(currentMessage, 0, st.charIndex),
                       timeouts |-> 1, delay |-> PauseDelay]
                 ELSE [messageIndex |-> st.messageIndex, charIndex |-> ci,
                       isDeleting |-> st.isDeleting,
                       text |-> substring(currentMessage, 0, st.charIndex),
                       timeouts |-> 1, delay |-> TypingDelay]

\* The same function of the Hisham page: charIndex-- and charIndex++ are
\* post-decrement and post-increment inside the substring call, so the text
\* written is the prefix of the OLD charIndex.
typeStatus_Hisham(q, st) ==
    LET currentMessage == At(q, st.messageIndex)
    IN  IF st.isDeleting
        THEN LET text == substring(currentMessage, 0, st.charIndex)
                 ci   == st.charIndex - 1
                 del  == IF ci = 0 THEN FALSE ELSE st.isDeleting
                 mi   == IF ci = 0 THEN (st.messageIndex + 1) % Len(q)
                                   ELSE st.messageIndex
             IN  [messageIndex |-> mi, charIndex |-> ci, isDeleting |-> del,
                  text |-> text,
                  timeouts |-> 1, delay |-> IF del THEN DeletingDelay ELSE TypingDelay]
        ELSE LET text == substring(currentMessage, 0, st.charIndex)
                 ci   == st.charIndex + 1
             IN  IF ci = Len(currentMessage)
                 THEN [messageIndex |-> st.messageIndex, charIndex |-> ci,
                       isDeleting |-> TRUE, text |-> text, timeouts |-> 1, delay |-> PauseDelay]
                 ELSE [messageIndex |-> st.messageIndex, charIndex |-> ci,
                       isDeleting |-> st.isDeleting, text |-> text,
                       timeouts |-> 1, delay |-> IF st.isDeleting THEN DeletingDelay ELSE TypingDelay]

typeStatusOf(p, q, st) ==
    IF p = "Hisham" THEN typeStatus_Hisham(q, st) ELSE typeStatus_Rubaisha(q, st)

\* Run typeStatus once on the current state (a call, from a handler or a timer).
RunTypeStatus ==
    LET r == typeStatusOf(page, logMessages,
                          [messageIndex |-> messageIndex, charIndex |-> charIndex,
                           isDeleting |-> isDeleting])
    IN  /\ messageIndex' = r.messageIndex
        /\ charIndex' = r.charIndex
        /\ isDeleting' = r.isDeleting
        /\ statusText' = r.text
        /\ statusTimer' = r.delay
        /\ statusPending' = statusPending + r.timeouts
        /\ cycles' = IF isDeleting /\ r.charIndex = 0 THEN cycles + 1 ELSE cycles
        /\ ticks' = ticks + 1
        /\ UNCHANGED logMessages

\* typeStatus called as the callback of a setTimeout(typeStatus, d) that
\* fires: that timeout is no longer pending.
RunTypeStatusFromTimer ==
    LET r == typeStatusOf(page, logMessages,
                          [messageIndex |-> messageIndex, charIndex |-> charIndex,
                           isDeleting |-> isDeleting])
    IN  /\ messageIndex' = r.messageIndex
        /\ charIndex' = r.charIndex
        /\ isDeleting' = r.isDeleting
        /\ statusText' = r.text
        /\ statusTimer' = r.delay
        /\ statusPending' = (statusPending - 1) + r.timeouts
        /\ cycles' = IF isDeleting /\ r.charIndex = 0 THEN cycles + 1 ELSE cycles
        /\ ticks' = ticks + 1
        /\ UNCHANGED logMessages

\* A pending setTimeout(typeStatus, d) fires.
StatusTimerFire ==
    /\ statusPending > 0
    /\ TaskMayStart
    /\ ticks < MaxTicks
    /\ RunTypeStatusFromTimer
    /\ UNCHANGED <<page, dispatching, heartVars, promiseVars, loaded, sceneVars, mediaVars, hisVars, expVars>>

(***************************************************************************)
(* Media playback.  HTMLMediaElement.play() returns a promise; a failure   *)
(* is a rejection delivered after the calling handler's statement, never a *)
(* synchronous throw.                                                      *)
(***************************************************************************)
PlayOutcomes == {"ok", "rejected"}

(***************************************************************************)
(* Scene player (Rubaisha page)                                            *)
(***************************************************************************)
NumScenes == 3

SceneImages == << "images/bedroom.jpg", "images/bathroom.jpg", "images/window.jpg" >>

\* The text of the dialogue box is a sequence of characters, a character
\* being a string: the character itself, or "U+" and its code point for one
\* outside the characters a string of this module can hold.
RECURSIVE Chars(_)
Chars(s) ==
    IF s = "" THEN <<>> ELSE <<SubSeq(s, 1, 1)>> \o Chars(SubSeq(s, 2, Len(s)))

SceneDialogues ==
    << Chars("The room reeks of despair. A razor sits on the dresser."),
       Chars("The bathtub is tinged with red. The mirror cracks silently."),
       Chars("You see the note. Blood trails on the glass.") >>

SceneAudio == << "whisper", "door", "scream" >>

\* The closing line appended on the terminal scene: "\n\nRuby", the right
\* single quotation mark U+2019, "s ghost appears behind you...".
Epilogue ==
    Chars("\n\nRuby") \o <<"U+2019">> \o Chars("s ghost appears behind you...")

\* The scenes array with the given next pointers (Null for null).
ScenesWith(nexts) ==
    [k \in 1..NumScenes |->
        [image |-> SceneImages[k], dialogue |-> SceneDialogues[k],
         audio |-> SceneAudio[k], next |-> nexts[k]]]

\* Scenes met when following next from idx, at most fuel of them; a pointer
\* out of range or fuel running out (a cycle) ends the walk with Null added.
RECURSIVE Walk(_, _, _)
Walk(sc, idx, fuel) ==
    IF idx < 0 \/ idx >= Len(sc) \/ fuel = 0 THEN <<Null>>
    ELSE IF At(sc, idx).next = Null THEN <<idx>>
    ELSE <<idx>> \o Walk(sc, At(sc, idx).next, fuel - 1)

Path(sc) == Walk(sc, 0, Len(sc))

\* spec.md section 3: following next from the first scene ends at a scene
\* without successor.  Scenes off that path are never read by the code and
\* are given no successor.
WellFormed(sc) ==
    /\ Path(sc)[Len(Path(sc))] # Null
    /\ \A k \in 0..(Len(sc) - 1) :
          (\A j \in 1..Len(Path(sc)) : Path(sc)[j] # k) => At(sc, k).next = Null

chainLength(sc) == Len(Path(sc))

Chains ==
    {sc \in {ScenesWith(n) : n \in [1..NumScenes -> (0..(NumScenes - 1)) \cup {Null}]} :
        WellFormed(sc)}

\* The source's array: 0 -> 1 -> 2 -> null.
SourceScenes == ScenesWith(<<1, 2, Null>>)

\* Mutant of showScene: dialogueBox.textContent = scene.dialogue is done only
\* for a scene with a successor, so the closing line is appended to whatever
\* the box holds.
showScene_AppendToBox(sc, s, index, outcome) ==
    LET scene == At(sc, index)
        s1    == [s EXCEPT !.image = scene.image,
                           !.plays = Played(@, scene.audio)]
    IN  IF scene.next # Null
        THEN [s1 EXCEPT !.dialogue = scene.dialogue, !.display = "block",
                        !.onclick = index]
        ELSE [s1 EXCEPT !.display = "none", !.dialogue = @ \o Epilogue]

\* Mutant of showScene: = instead of += on the terminal scene.
showScene_EpilogueReplaces(sc, s, index, outcome) ==
    LET scene == At(sc, index)
        s1    == [s EXCEPT !.image = scene.image,
                           !.dialogue = scene.dialogue,
                           !.plays = Played(@, scene.audio)]
    IN  IF scene.next # Null
        THEN [s1 EXCEPT !.display = "block", !.onclick = index]
        ELSE [s1 EXCEPT !.display = "none", !.dialogue = Epilogue]

\* Mutant of showScene: the rest of the function runs only once the sound has
\* started (await sound.play() without a catch).
showScene_AwaitsSound(sc, s, index, outcome) ==
    LET scene == At(sc, index)
        s1    == [s EXCEPT !.image = scene.image,
                           !.dialogue = scene.dialogue,
                           !.plays = Played(@, scene.audio)]
    IN  IF outcome # "ok" THEN s1
        ELSE IF scene.next # Null
        THEN [s1 EXCEPT !.display = "block", !.onclick = index]
        ELSE [s1 EXCEPT !.display = "none", !.dialogue = @ \o Epilogue]

\* showScene(index) on the display sinks
\*   s = [image, dialogue, display, onclick, plays];
\* outcome is what the promise returned by sound.play() settles to: the code
\* drops the promise, so nothing below reads it.
showScene(sc, s, index, outcome) ==
    LET scene == At(sc, index)
        s1    == [s EXCEPT !.image = scene.image,
                           !.dialogue = scene.dialogue,
                           !.plays = Played(@, scene.audio)]
    IN  IF scene.next # Null
        THEN [s1 EXCEPT !.display = "block", !.onclick = index]
        ELSE [s1 EXCEPT !.display = "none", !.dialogue = @ \o Epilogue]

Sinks ==
    [image |-> sceneImage, dialogue |-> dialogueBox, display |-> nextBtnDisplay,
     onclick |-> nextBtnOnclick, plays |-> plays]

\* A call showScene(index) from a handler, with its effect on the sinks.
CallShowScene(index, outcome) ==
    LET r == showScene(scenes, Sinks, index, outcome)
    IN  /\ sceneImage' = r.image
        /\ dialogueBox' = r.dialogue
        /\ nextBtnDisplay' = r.display
        /\ nextBtnOnclick' = r.onclick
        /\ plays' = r.plays
        /\ playOutcome' = outcome
        /\ shown' = Append(shown, index)

\* document DOMContentLoaded on the Rubaisha page: the first typeStatus call.
DOMContentLoaded_Rubaisha ==
    /\ page = "Rubaisha"
    /\ ~loaded
    /\ loaded' = TRUE
    /\ RunTypeStatus
    /\ UNCHANGED <<page, dispatching, heartVars, promiseVars, sceneVars, mediaVars, hisVars, expVars>>

\* Mutant of WindowOnload: the first scene is shown when the page has loaded.
WindowOnload_ShowsScene ==
    /\ page = "Rubaisha"
    /\ loaded
    /\ ~windowLoaded
    /\ windowLoaded' = TRUE
    /\ gameContainer' = "none"
    /\ \E outcome \in PlayOutcomes : CallShowScene(currentScene, outcome)
    /\ UNCHANGED <<page, dispatching, heartVars, promiseVars, loaded, twVars, scenes, currentScene, openingScreen, clicks,
                   console, hisVars, expVars>>

\* window.onload
WindowOnload ==
    /\ page = "Rubaisha"
    /\ loaded
    /\ ~windowLoaded
    /\ windowLoaded' = TRUE
    /\ gameContainer' = "none"
    /\ UNCHANGED <<page, dispatching, heartVars, promiseVars, loaded, twVars, scenes, currentScene, sceneImage, dialogueBox,
                   nextBtnDisplay, nextBtnOnclick, openingScreen, shown, clicks,
                   mediaVars, hisVars, expVars>>

\* Mutant of StartClick: the handler shows scene 0 instead of currentScene.
StartClick_Restart(outcome) ==
    /\ page = "Rubaisha"
    /\ Len(shown) < MaxCalls
    /\ openingScreen' = "none"
    /\ gameContainer' = "block"
    /\ currentScene' = 0
    /\ CallShowScene(0, outcome)
    /\ UNCHANGED <<page, dispatching, heartVars, promiseVars, loaded, twVars, scenes, windowLoaded, clicks, console,
                   hisVars, expVars>>

\* Mutant of StartClick: the scene cursor and the typewriter's character
\* cursor are one shared variable, so that showing a scene moves both.
StartClick_SharedCursor(outcome) ==
    /\ page = "Rubaisha"
    /\ Len(shown) < MaxCalls
    /\ openingScreen' = "none"
    /\ gameContainer' = "block"
    /\ charIndex' = currentScene
    /\ CallShowScene(currentScene, outcome)
    /\ UNCHANGED <<page, dispatching, heartVars, promiseVars, loaded, logMessages, messageIndex, isDeleting, statusText,
                   statusTimer, statusPending, cycles, ticks, scenes, currentScene,
                   windowLoaded, clicks, console, hisVars, expVars>>

\* click on start-btn
StartClick(outcome) ==
    /\ page = "Rubaisha"
    /\ Len(shown) < MaxCalls
    /\ openingScreen' = "none"
    /\ gameContainer' = "block"
    /\ CallShowScene(currentScene, outcome)
    /\ UNCHANGED <<page, dispatching, heartVars, promiseVars, loaded, twVars, scenes, currentScene, windowLoaded, clicks,
                   console, hisVars, expVars>>

\* Mutant of NextClick: the handler moves to currentScene + 1 instead of
\* scene.next.
NextClick_Increment(outcome) ==
    /\ page = "Rubaisha"
    /\ nextBtnDisplay # "none"
    /\ IF nextBtnOnclick = Null
       THEN UNCHANGED vars
       ELSE /\ Len(shown) < MaxCalls
            /\ currentScene' = currentScene + 1
            /\ CallShowScene(currentScene', outcome)
            /\ clicks' = clicks + 1
            /\ UNCHANGED <<page, dispatching, heartVars, promiseVars, loaded, twVars, scenes, openingScreen, gameContainer,
                           windowLoaded, console, hisVars, expVars>>

\* Activation of next-room-btn by the user: possible unless the button's own
\* style hides it (display "none"); runs nextBtn.onclick when one is set.
NextClick(outcome) ==
    /\ page = "Rubaisha"
    /\ nextBtnDisplay # "none"
    /\ IF nextBtnOnclick = Null
       THEN UNCHANGED vars
       ELSE /\ Len(shown) < MaxCalls
            /\ currentScene' = At(scenes, nextBtnOnclick).next
            /\ CallShowScene(currentScene', outcome)
            /\ clicks' = clicks + 1
            /\ UNCHANGED <<page, dispatching, heartVars, promiseVars, loaded, twVars, scenes, openingScreen, gameContainer,
                           windowLoaded, console, hisVars, expVars>>

(***************************************************************************)
(* Hisham page: preloader, main content start, music player                *)
(***************************************************************************)
IntroDelay == 800
FadeDelay  == 1000

introLines ==
    << "Booting system...",
       "Accessing memory core...",
       "Searching for file: hisham_bday_archive.dat...",
       "File found.",
       "Establishing connection..." >>

\* Mutant of typeIntro: the fade-out starts one line early, the last intro
\* line is never shown.
typeIntro_DropsLastLine ==
    IF lineIndex < Len(introLines) - 1
    THEN /\ preloaderText' = At(introLines, lineIndex)
         /\ introLog' = Append(introLog, At(introLines, lineIndex))
         /\ lineIndex' = lineIndex + 1
         /\ introTimer' = IntroDelay
         /\ UNCHANGED preloaderFade
    ELSE /\ preloaderFade' = TRUE
         /\ introTimer' = FadeDelay
         /\ UNCHANGED <<preloaderText, lineIndex, introLog>>

\* One invocation of typeIntro.
typeIntro ==
    IF lineIndex < Len(introLines)
    THEN /\ preloaderText' = At(introLines, lineIndex)
         /\ introLog' = Append(introLog, At(introLines, lineIndex))
         /\ lineIndex' = lineIndex + 1
         /\ introTimer' = IntroDelay
         /\ UNCHANGED preloaderFade
    ELSE /\ preloaderFade' = TRUE
         /\ introTimer' = FadeDelay
         /\ UNCHANGED <<preloaderText, lineIndex, introLog>>

\* document DOMContentLoaded on the Hisham page: the first typeIntro call.
DOMContentLoaded_Hisham ==
    /\ page = "Hisham"
    /\ ~loaded
    /\ loaded' = TRUE
    /\ typeIntro
    /\ UNCHANGED <<page, dispatching, heartVars, promiseVars, twVars, sceneVars, mediaVars, preloaderDisplay, mainHidden,
                   mainStarted, songPaused, playBtnText, onceArmed, mainStarts,
                   expVars>>

\* The pending setTimeout(typeIntro, 800) fires.
IntroTimerFire ==
    /\ introTimer = IntroDelay
    /\ typeIntro
    /\ UNCHANGED <<page, dispatching, heartVars, promiseVars, loaded, twVars, sceneVars, mediaVars, preloaderDisplay,
                   mainHidden, mainStarted, songPaused, playBtnText, onceArmed,
                   mainStarts, expVars>>

\* startMainContent: registers the handlers of the main page and makes the
\* first typeStatus call.
startMainContent ==
    /\ mainStarted' = TRUE
    /\ mainStarts' = mainStarts + 1
    /\ onceArmed' = TRUE
    /\ RunTypeStatus

\* The 1000 ms timeout set by typeIntro after the last line fires.
FadeTimerFire ==
    /\ introTimer = FadeDelay
    /\ introTimer' = 0
    /\ preloaderDisplay' = "none"
    /\ mainHidden' = FALSE
    /\ startMainContent
    /\ UNCHANGED <<page, dispatching, heartVars, promiseVars, loaded, sceneVars, mediaVars, lineIndex, preloaderText,
                   preloaderFade, songPaused, playBtnText, introLog, expVars>>

\* song.play().catch(error => console.log("Audio play failed: " + error)) on
\* the player state m = [paused, text, plays, outcome, pending, aborted,
\* jobs, refused, ended], up to the return of the call.  A play() that is accepted
\* clears song.paused and returns a pending promise; one that is refused
\* leaves song.paused as it is and returns a rejected promise, whose .catch
\* reaction is queued as a microtask.  The callback itself runs later.
songPlay(m, outcome) ==
    IF outcome = "ok"
    THEN [m EXCEPT !.paused  = FALSE,
                   !.ended   = FALSE,
                   !.pending = @ + 1,
                   !.plays = Played(@, "background-song"),
                   !.outcome = "ok"]
    ELSE [m EXCEPT !.jobs    = @ + 1,
                   !.refused = TRUE,
                   !.plays = Played(@, "background-song"),
                   !.outcome = "rejected"]

\* song.pause(): sets song.paused and queues a task that rejects the promises
\* still pending.
songPause(m) ==
    [m EXCEPT !.paused  = TRUE,
              !.aborted = IF m.pending > 0 THEN @ + 1 ELSE @,
              !.pending = 0]

\* click listener of play-pause-btn
playBtnHandler(m, outcome) ==
    IF m.paused
    THEN [songPlay(m, outcome) EXCEPT !.text = "Pause Song"]
    ELSE [songPause(m) EXCEPT !.text = "Play Song"]

\* Mutant of onceHandler: the listener starts the song whatever the state of
\* the player.
onceHandler_NoGuard(m, outcome) ==
    [songPlay(m, outcome) EXCEPT !.text = "Pause Song"]

\* the { once: true } click listener of document.body
onceHandler(m, outcome) ==
    IF m.paused /\ m.text = "Play Song"
    THEN [songPlay(m, outcome) EXCEPT !.text = "Pause Song"]
    ELSE m

Player ==
    [paused |-> songPaused, text |-> playBtnText, plays |-> plays,
     outcome |-> playOutcome, pending |-> playPending, aborted |-> playAborted,
     jobs |-> catchJobs, refused |-> songRefused, ended |-> songEnded]

SetPlayer(m) ==
    /\ songPaused' = m.paused
    /\ playBtnText' = m.text
    /\ plays' = m.plays
    /\ playOutcome' = m.outcome
    /\ playPending' = m.pending
    /\ playAborted' = m.aborted
    /\ catchJobs' = m.jobs
    /\ songRefused' = m.refused
    /\ songEnded' = m.ended
    /\ UNCHANGED console

\* A click on play-pause-btn: its own listener runs.  The click then bubbles
\* to document.body; a .catch reaction queued by the listener runs before the
\* listeners of document.body do.
PlayBtnClick(outcome) ==
    /\ page = "Hisham"
    /\ mainStarted
    /\ TaskMayStart
    /\ plays["background-song"] < MaxCalls
    /\ SetPlayer(playBtnHandler(Player, outcome))
    /\ dispatching' = "play-pause-btn"
    /\ UNCHANGED <<page, heartVars, loaded, twVars, sceneVars, lineIndex,
                   preloaderText, preloaderFade, preloaderDisplay, mainHidden,
                   introTimer, mainStarted, onceArmed, introLog, mainStarts,
                   expVars>>

\* A click reaches document.body: one made anywhere else on the page, or the
\* one that bubbles from the button or the heart.  The first-interaction
\* listener runs if it is still registered, and is removed.
BodyClick(outcome) ==
    /\ page = "Hisham"
    /\ mainStarted
    /\ NoMicrotask
    /\ dispatching # "" \/ plays["background-song"] < MaxCalls
    /\ SetPlayer(IF onceArmed THEN onceHandler(Player, outcome) ELSE Player)
    /\ onceArmed' = FALSE
    /\ dispatching' = ""
    /\ UNCHANGED <<page, heartVars, loaded, twVars, sceneVars, lineIndex,
                   preloaderText, preloaderFade, preloaderDisplay, mainHidden,
                   introTimer, mainStarted, introLog, mainStarts, expVars>>

\* The song plays to its end: the media element sets song.paused.  No
\* listener of the script is told, the label stays as it is.  (The markup is
\* not part of the sources: an element with the attribute loop never gets
\* here, so the step may be taken or not.)
SongEnded ==
    /\ page = "Hisham"
    /\ mainStarted
    /\ TaskMayStart
    /\ ~songPaused
    /\ playPending = 0
    /\ playOutcome = "ok"
    /\ songPaused' = TRUE
    /\ songEnded' = TRUE
    /\ UNCHANGED <<page, dispatching, heartVars, loaded, twVars, sceneVars, mediaVars,
                   lineIndex, preloaderText, preloaderFade, preloaderDisplay,
                   mainHidden, introTimer, mainStarted, playBtnText, onceArmed,
                   introLog, mainStarts, expVars, playPending, playAborted,
                   catchJobs, songRefused>>

(***************************************************************************)
(* Interactive heart, Rubaisha and Hisham pages                            *)
(***************************************************************************)
\* click on interactiveHeart.  On the Rubaisha page the listener is added by
\* the script itself and also plays clickSound; on the Hisham page it is
\* added by startMainContent, and the click bubbles on to document.body.
HeartClick(outcome) ==
    /\ heartClicks < MaxHeartClicks
    /\ TaskMayStart
    /\ heartClicks' = heartClicks + 1
    /\ heartBeating' = TRUE
    /\ heartPending' = heartPending + 1
    /\ \/ /\ page = "Rubaisha"
          /\ plays' = Played(plays, "clickSound")
          /\ playOutcome' = outcome
          /\ UNCHANGED <<screenGlitch, console, dispatching>>
       \/ /\ page = "Hisham"
          /\ mainStarted
          /\ screenGlitch' = TRUE
          /\ dispatching' = "interactiveHeart"
          /\ UNCHANGED mediaVars
    /\ UNCHANGED <<page, loaded, twVars, sceneVars, hisVars, expVars, promiseVars>>

\* Mutant of HeartTimerFire: the timeout toggles the classes instead of
\* removing them.
HeartTimerFire_Toggles ==
    /\ heartPending > 0
    /\ TaskMayStart
    /\ heartPending' = heartPending - 1
    /\ heartBeating' = ~heartBeating
    /\ screenGlitch' = IF page = "Hisham" THEN ~screenGlitch ELSE screenGlitch
    /\ UNCHANGED <<page, dispatching, loaded, twVars, sceneVars, mediaVars, hisVars, expVars,
                   heartClicks, promiseVars>>

\* One of the pending 500 ms removal timeouts fires.
HeartTimerFire ==
    /\ heartPending > 0
    /\ TaskMayStart
    /\ heartPending' = heartPending - 1
    /\ heartBeating' = FALSE
    /\ screenGlitch' = IF page = "Hisham" THEN FALSE ELSE screenGlitch
    /\ UNCHANGED <<page, dispatching, loaded, twVars, sceneVars, mediaVars, hisVars, expVars,
                   heartClicks, promiseVars>>

(***************************************************************************)
(* Experiment page                                                         *)
(***************************************************************************)
RevealDelay == 2000

\* Mutant of revealText: the bound is tested with <=, one tick too many.
revealText_OneTooMany ==
    IF revealI <= ghostCount
    THEN /\ revealed' = revealed \cup {revealI}
         /\ revealI' = revealI + 1
         /\ revealTimer' = RevealDelay
    ELSE /\ revealTimer' = 0
         /\ UNCHANGED <<revealed, revealI>>

\* One invocation of revealText.
revealText ==
    IF revealI < ghostCount
    THEN /\ revealed' = revealed \cup {revealI}
         /\ revealI' = revealI + 1
         /\ revealTimer' = RevealDelay
    ELSE /\ revealTimer' = 0
         /\ UNCHANGED <<revealed, revealI>>

\* document DOMContentLoaded on the Experiment page: the first revealText call.
DOMContentLoaded_Experiment ==
    /\ page = "Experiment"
    /\ ~loaded
    /\ loaded' = TRUE
    /\ revealText
    /\ UNCHANGED <<page, dispatching, heartVars, promiseVars, twVars, sceneVars, mediaVars, hisVars, ghostCount,
                   overlayDisplay, bgVolume>>

\* The pending setTimeout(revealText, 2000) fires.
RevealTimerFire ==
    /\ revealTimer # 0
    /\ TaskMayStart
    /\ revealText
    /\ UNCHANGED <<page, dispatching, heartVars, promiseVars, loaded, twVars, sceneVars, mediaVars, hisVars, ghostCount,
                   overlayDisplay, bgVolume>>

\* click on start-btn of the Experiment page
\* bgAudio.play() that is accepted returns a pending promise, one that is
\* refused a rejected promise whose .catch reaction is queued; the callback
\* runs after the handler has returned.
StartClick_Experiment(outcome) ==
    /\ page = "Experiment"
    /\ loaded
    /\ TaskMayStart
    /\ plays["bg-audio"] < MaxCalls
    /\ overlayDisplay' = "none"
    /\ bgVolume' = 4
    /\ plays' = Played(plays, "bg-audio")
    /\ playOutcome' = outcome
    /\ playPending' = IF outcome = "ok" THEN playPending + 1 ELSE playPending
    /\ catchJobs' = IF outcome = "ok" THEN catchJobs ELSE catchJobs + 1
    /\ songRefused' = (songRefused \/ outcome # "ok")
    /\ UNCHANGED <<page, dispatching, heartVars, loaded, twVars, sceneVars, hisVars, ghostCount,
                   revealed, revealI, revealTimer, console, playAborted, songEnded>>

(***************************************************************************)
(* Settling of the play() promises, Hisham and Experiment pages            *)
(***************************************************************************)
\* The text the page's .catch callback writes (the error's own text, which
\* follows it, is not kept).
FailureMessage ==
    IF page = "Experiment" THEN "Audio playback failed: " ELSE "Audio play failed: "

\* Playback starts: the pending promises are resolved; no callback runs.
PlayStarted ==
    /\ playPending > 0
    /\ TaskMayStart
    /\ playPending' = 0
    /\ UNCHANGED <<page, dispatching, heartVars, loaded, twVars, sceneVars, hisVars, expVars,
                   plays, playOutcome, console, playAborted, catchJobs,
                   songRefused, songEnded>>

\* The resource turns out to be unusable: the pending promises are rejected
\* and their .catch callbacks run at the end of that task.  song.paused is
\* left as it is.
PlayFailed ==
    /\ playPending > 0
    /\ TaskMayStart
    /\ playPending' = 0
    /\ playOutcome' = "rejected"
    /\ console' = console \cup {FailureMessage}
    /\ UNCHANGED <<page, dispatching, heartVars, loaded, twVars, sceneVars, hisVars, expVars,
                   plays, playAborted, catchJobs, songRefused, songEnded>>

\* The task queued by pause() rejects the promise it took; its .catch
\* callback runs at the end of that task.
PlayAborted ==
    /\ playAborted > 0
    /\ TaskMayStart
    /\ playAborted' = playAborted - 1
    /\ console' = console \cup {FailureMessage}
    /\ UNCHANGED <<page, dispatching, heartVars, loaded, twVars, sceneVars, hisVars, expVars,
                   plays, playOutcome, playPending, catchJobs, songRefused,
                   songEnded>>

\* The .catch callback of a promise that play() returned rejected.
CatchJob ==
    /\ catchJobs > 0
    /\ catchJobs' = catchJobs - 1
    /\ console' = console \cup {FailureMessage}
    /\ UNCHANGED <<page, dispatching, heartVars, loaded, twVars, sceneVars, hisVars, expVars,
                   plays, playOutcome, playPending, playAborted, songRefused,
                   songEnded>>

(***************************************************************************)
(* Specification                                                           *)
(***************************************************************************)
Pages == {"Rubaisha", "Hisham", "Experiment"}

Init ==
    /\ page \in Pages
    /\ loaded = FALSE
    /\ logMessages \in Queues(page)
    /\ messageIndex = 0
    /\ charIndex = 0
    /\ isDeleting = FALSE
    /\ statusText = ""
    /\ statusTimer = 0
    /\ statusPending = 0
    /\ cycles = 0
    /\ ticks = 0
    /\ scenes \in (IF page = "Rubaisha" THEN Chains ELSE {<<>>})
    /\ currentScene = 0
    /\ sceneImage = ""
    /\ dialogueBox = <<>>
    /\ nextBtnDisplay = ""
    /\ nextBtnOnclick = Null
    /\ openingScreen = ""
    /\ gameContainer = ""
    /\ windowLoaded = FALSE
    /\ plays = NoPlays
    /\ shown = <<>>
    /\ clicks = 0
    /\ playOutcome = "none"
    /\ console = {}
    /\ lineIndex = 0
    /\ preloaderText = ""
    /\ preloaderFade = FALSE
    /\ preloaderDisplay = ""
    /\ mainHidden = TRUE
    /\ introTimer = 0
    /\ mainStarted = FALSE
    /\ songPaused = TRUE
    /\ playBtnText = "Play Song"
    /\ onceArmed = FALSE
    /\ introLog = <<>>
    /\ mainStarts = 0
    /\ ghostCount \in (IF page = "Experiment" THEN 0..MaxLines ELSE {0})
    /\ revealed = {}
    /\ revealI = 0
    /\ revealTimer = 0
    /\ overlayDisplay = ""
    /\ bgVolume = 10
    /\ heartBeating = FALSE
    /\ screenGlitch = FALSE
    /\ heartPending = 0
    /\ heartClicks = 0
    /\ playPending = 0
    /\ playAborted = 0
    /\ catchJobs = 0
    /\ songRefused = FALSE
    /\ songEnded = FALSE
    /\ dispatching = ""

Next ==
    \/ DOMContentLoaded_Rubaisha
    \/ StatusTimerFire
    \/ WindowOnload
    \/ \E outcome \in PlayOutcomes : StartClick(outcome)
    \/ \E outcome \in PlayOutcomes : NextClick(outcome)
    \/ DOMContentLoaded_Hisham
    \/ IntroTimerFire
    \/ FadeTimerFire
    \/ \E outcome \in PlayOutcomes : PlayBtnClick(outcome)
    \/ \E outcome \in PlayOutcomes : BodyClick(outcome)
    \/ SongEnded
    \/ DOMContentLoaded_Experiment
    \/ RevealTimerFire
    \/ \E outcome \in PlayOutcomes : StartClick_Experiment(outcome)
    \/ \E outcome \in PlayOutcomes : HeartClick(outcome)
    \/ HeartTimerFire
    \/ PlayStarted
    \/ PlayFailed
    \/ PlayAborted
    \/ CatchJob

Spec == Init /\ [][Next]_vars

(***************************************************************************)
(* Properties of the typewriter                                            *)
(***************************************************************************)
TypewriterPages == {"Rubaisha", "Hisham"}

\* typeStatus has run at least once: from its first call on, one timer is
\* always pending.
Ticked == statusTimer # 0

currentMessageNow == At(logMessages, messageIndex)

\* C1: on both pages, after every tick of typeStatus the status text is the
\* prefix of length charIndex of the currently selected message.
C1_DisplayIsPrefix ==
    (page \in TypewriterPages /\ Ticked) =>
        statusText = substring(currentMessageNow, 0, charIndex)

\* C2, as claimed: in every reachable state messageIndex is a valid index
\* into the queue and 0 <= charIndex <= len(logMessages[messageIndex]).
C2_IndicesInRange ==
    page \in TypewriterPages =>
        /\ messageIndex \in 0..(Len(logMessages) - 1)
        /\ 0 <= charIndex
        /\ charIndex <= Len(currentMessageNow)

\* C2, amended: in every reachable state messageIndex is a valid index into
\* the queue and 0 <= charIndex, and charIndex <= len(logMessages[messageIndex])
\* unless that message is the empty string; on an empty message the cursor
\* is in Typing mode and the display is empty.
C2_IndicesInRangeAmended ==
    page \in TypewriterPages =>
        /\ messageIndex \in 0..(Len(logMessages) - 1)
        /\ 0 <= charIndex
        /\ currentMessageNow # "" => charIndex <= Len(currentMessageNow)
        /\ (currentMessageNow = "" /\ charIndex > 0) =>
              (~isDeleting /\ statusText = "")

\* A message was typed out in full and deleted, and the cursor has since run
\* past the end of the empty message that follows it.
C2_Witness ==
    /\ page = "Hisham"
    /\ Len(logMessages) > 1
    /\ cycles = 1
    /\ messageIndex = 1
    /\ currentMessageNow = ""
    /\ charIndex >= 2

\* C3: after k full type-then-delete cycles messageIndex = k mod n; messageIndex
\* changes only on the deleting tick that brings charIndex to 0, and that tick
\* always moves it by +1 modulo n.
C3_MessageIndexIsCyclesModN ==
    /\ [](page \in TypewriterPages => messageIndex = cycles % Len(logMessages))
    /\ [][/\ messageIndex' # messageIndex =>
                /\ isDeleting
                /\ charIndex' = 0
          /\ (page \in TypewriterPages /\ isDeleting /\ charIndex # 0 /\ charIndex' = 0) =>
                messageIndex' = (messageIndex + 1) % Len(logMessages)]_vars

\* A queue of two messages has wrapped around once.
C3_Witness ==
    /\ Len(logMessages) = 2
    /\ cycles = Len(logMessages) + 1
    /\ messageIndex = 1

\* C10: a typing tick that does not complete the message schedules the next
\* tick after 100 ms, the typing tick that completes it after 2000 ms, a
\* deletion tick followed by another deletion tick after 50 ms; no other delay
\* is ever scheduled.  (Every tick changes charIndex.)
C10_TickDelays ==
    [][charIndex' # charIndex =>
          /\ (~isDeleting /\ charIndex' # Len(currentMessageNow)) => statusTimer' = 100
          /\ (~isDeleting /\ charIndex' = Len(currentMessageNow)) => statusTimer' = 2000
          /\ (isDeleting /\ isDeleting') => statusTimer' = 50
          /\ statusTimer' \in {100, 2000, 50}]_vars

\* All three delays have been scheduled: the pending timer is the 50 ms one
\* between two deletion ticks, which follows the 100 ms and 2000 ms ones.
C10_Witness ==
    /\ page \in TypewriterPages
    /\ isDeleting
    /\ statusTimer = 50
    /\ charIndex >= 1
    /\ Len(currentMessageNow) >= 2

(***************************************************************************)
(* Properties of the scene player                                          *)
(***************************************************************************)
Last(q) == q[Len(q)]

\* The start button has been activated: only its handler hides the opening
\* screen.
Started == openingScreen = "none"

IsTerminal(idx) == At(scenes, idx).next = Null

\* C4: after start every activation of the continue control moves the cursor
\* to the current scene's next and shows that scene, so the cursor is on the
\* terminal scene after exactly chainLength - 1 activations; after start the
\* continue control is hidden exactly when the displayed scene is terminal.
C4_ContinueWalksTheChain ==
    /\ []((page = "Rubaisha" /\ Started) =>
            /\ clicks <= chainLength(scenes) - 1
            /\ currentScene = Path(scenes)[clicks + 1]
            /\ IsTerminal(currentScene) <=> clicks = chainLength(scenes) - 1
            /\ nextBtnDisplay = "none" <=> IsTerminal(currentScene))
    /\ [][(Started /\ clicks' # clicks) =>
            /\ clicks' = clicks + 1
            /\ currentScene' = At(scenes, currentScene).next
            /\ Last(shown') = currentScene'
            /\ sceneImage' = At(scenes, currentScene').image]_vars

\* The chain 0 -> 2 -> 1 walked to its end: two activations, control hidden.
C4_Witness ==
    /\ page = "Rubaisha"
    /\ chainLength(scenes) = NumScenes
    /\ At(scenes, 0).next = 2
    /\ clicks = 2
    /\ currentScene = 1
    /\ nextBtnDisplay = "none"

\* C5: after start exactly the scene under the cursor is displayed (image and
\* dialogue are those of scenes[currentScene] and of no other scene), and the
\* scenes shown never return to a scene that was left for another one.
C5_OneSceneStrictlyForward ==
    (page = "Rubaisha" /\ Started) =>
        /\ \A k \in 0..(Len(scenes) - 1) :
              /\ sceneImage = At(scenes, k).image <=> k = currentScene
              /\ substring(dialogueBox, 0, Len(At(scenes, k).dialogue))
                    = At(scenes, k).dialogue <=> k = currentScene
        /\ \A a, b, c \in 1..Len(shown) :
              (a < b /\ b < c /\ shown[a] = shown[c]) => shown[b] = shown[a]

\* Start activated again in the middle of the walk, then the walk continued.
C5_Witness ==
    /\ page = "Rubaisha"
    /\ Len(shown) >= 4
    /\ shown[2] # shown[1]
    /\ shown[3] = shown[2]
    /\ shown[4] # shown[3]

\* C6: showScene(i) called twice in a row displays the same image, the same
\* dialogue and the same continue-control visibility as called once, and
\* plays the scene's sound once per call: for every valid index on every
\* reachable display, and on every step of a run that repeats the last call.
C6_ShowSceneIdempotent ==
    /\ [](page = "Rubaisha" =>
            \A k \in 0..(Len(scenes) - 1) : \A o1, o2 \in PlayOutcomes :
                LET s1 == showScene(scenes, Sinks, k, o1)
                    s2 == showScene(scenes, s1, k, o2)
                IN  /\ s2.image = s1.image
                    /\ s2.dialogue = s1.dialogue
                    /\ s2.display = s1.display
                    /\ s1.plays = Played(plays, At(scenes, k).audio)
                    /\ s2.plays = Played(s1.plays, At(scenes, k).audio))
    /\ [][(shown # <<>> /\ Len(shown') > Len(shown) /\ Last(shown') = Last(shown)) =>
            /\ sceneImage' = sceneImage
            /\ dialogueBox' = dialogueBox
            /\ nextBtnDisplay' = nextBtnDisplay
            /\ plays' = Played(plays, At(scenes, Last(shown)).audio)]_vars

\* The terminal scene shown twice in a row.
C6_Witness ==
    /\ page = "Rubaisha"
    /\ Len(shown) >= 2
    /\ shown[Len(shown)] = shown[Len(shown) - 1]
    /\ IsTerminal(Last(shown))
    /\ plays[At(scenes, Last(shown)).audio] >= 2

\* C7: after showScene(i) the dialogue text is scenes[i].dialogue when the
\* scene has a successor, and scenes[i].dialogue followed by the closing line
\* exactly once when it is terminal.
C7_EpilogueOnlyOnTerminal ==
    (page = "Rubaisha" /\ shown # <<>>) =>
        LET scene == At(scenes, Last(shown))
        IN  dialogueBox = IF scene.next # Null THEN scene.dialogue
                          ELSE scene.dialogue \o Epilogue

\* A terminal scene reached through a scene with a successor and shown again.
C7_Witness ==
    /\ page = "Rubaisha"
    /\ Len(shown) >= 3
    /\ ~IsTerminal(shown[1])
    /\ IsTerminal(shown[Len(shown)])
    /\ shown[Len(shown)] = shown[Len(shown) - 1]
    /\ dialogueBox = At(scenes, currentScene).dialogue \o Epilogue

\* C8: until the start button is first activated no image or dialogue is
\* set, no scene sound is played, currentScene is 0 and the continue control
\* has no handler, so its activation changes nothing; the first scene shown
\* is scene 0, shown by the start activation.
C8_InertUntilStart ==
    page = "Rubaisha" =>
        /\ ~Started =>
              /\ sceneImage = ""
              /\ dialogueBox = <<>>
              /\ \A a \in SceneSounds : plays[a] = 0
              /\ shown = <<>>
              /\ currentScene = 0
              /\ nextBtnOnclick = Null
              /\ nextBtnDisplay = ""
        /\ shown # <<>> => (Started /\ shown[1] = 0)

\* The page has been open for a while (loaded, typewriter past its first
\* message, the heart clicked and its click sound played) and the start
\* button has not been activated.
C8_Witness ==
    /\ page = "Rubaisha"
    /\ ~Started
    /\ windowLoaded
    /\ gameContainer = "none"
    /\ cycles >= 1
    /\ plays["clickSound"] >= 1

\* C9: a play() that fails changes nothing but the sound.  A showScene
\* whose sound is refused sets the image and dialogue of its scene, shows
\* the continue control armed for that scene when there is a successor and
\* hides it when there is none, as with a sound that plays; a heart click whose
\* click sound is refused leaves typewriter and scenes alone; on the Hisham
\* and Experiment pages a refused play() has the handler's other effects and
\* queues the .catch reaction, which is the next thing to run; and every
\* step that logs a failure (that reaction, or a rejection that comes later)
\* adds the page's message and touches nothing of the typewriter, the
\* scenes, the preloader, the player, the heart or the reveal.
C9_PlaybackFailureIsHarmless ==
    [][/\ (page = "Rubaisha" /\ playOutcome' = "rejected" /\ shown' # shown) =>
             LET index == Last(shown')
                 scene == At(scenes, index)
             IN  /\ currentScene' = index
                 /\ sceneImage' = scene.image
                 /\ scene.next # Null =>
                       /\ dialogueBox' = scene.dialogue
                       /\ nextBtnDisplay' = "block"
                       /\ nextBtnOnclick' = index
                 /\ scene.next = Null =>
                       /\ dialogueBox' = scene.dialogue \o Epilogue
                       /\ nextBtnDisplay' = "none"
                       /\ nextBtnOnclick' = nextBtnOnclick
                 /\ plays' = Played(plays, scene.audio)
                 /\ console' = console
                 /\ UNCHANGED twVars
       /\ (page = "Rubaisha" /\ playOutcome' = "rejected" /\ plays' # plays
              /\ shown' = shown) =>
             /\ heartBeating'
             /\ UNCHANGED <<twVars, sceneVars, console>>
       /\ (page = "Hisham" /\ playOutcome' = "rejected" /\ plays' # plays) =>
             /\ catchJobs' = catchJobs + 1
             /\ playBtnText' = "Pause Song"
             /\ UNCHANGED <<twVars, lineIndex, preloaderText, preloaderFade,
                            preloaderDisplay, mainHidden, introTimer, mainStarted,
                            introLog, mainStarts>>
       /\ (page = "Experiment" /\ playOutcome' = "rejected" /\ plays' # plays) =>
             /\ catchJobs' = catchJobs + 1
             /\ overlayDisplay' = "none"
             /\ bgVolume' = 4
             /\ UNCHANGED <<ghostCount, revealed, revealI, revealTimer>>
       /\ catchJobs > 0 =>
             /\ catchJobs' = catchJobs - 1
             /\ console' = console \cup {FailureMessage}
       /\ console' # console =>
             /\ console' = console \cup {FailureMessage}
             /\ UNCHANGED <<twVars, sceneVars, hisVars, expVars, heartVars, plays,
                            dispatching>>]_vars

\* The terminal scene shown with its sound failing, after a scene whose
\* sound failed armed the continue control.
C9_Witness ==
    /\ page = "Rubaisha"
    /\ playOutcome = "rejected"
    /\ clicks >= 1
    /\ IsTerminal(currentScene)
    /\ nextBtnDisplay = "none"
    /\ dialogueBox = At(scenes, currentScene).dialogue \o Epilogue

(***************************************************************************)
(* Further properties of the typewriter                                    *)
(***************************************************************************)

\* C11: the typewriter is one chain of ticks: no timeout is pending before
\* the driver's first call, exactly one from then on, and every tick (a step
\* that changes charIndex) run from a timeout replaces the timeout that ran
\* it by exactly one new timeout.
C11_OnePendingTick ==
    /\ [](page \in TypewriterPages =>
            /\ statusPending = IF Ticked THEN 1 ELSE 0
            /\ Ticked <=> (IF page = "Hisham" THEN mainStarted ELSE loaded))
    /\ [][charIndex' # charIndex => statusPending' = 1]_vars

\* The chain has run through the 2000 ms pause and a whole cycle, and its
\* single next tick is pending.
C11_Witness ==
    /\ page \in TypewriterPages
    /\ cycles >= 2
    /\ isDeleting
    /\ statusPending = 1
    /\ statusTimer = 2000

(***************************************************************************)
(* The timer-driven parts under fair timers.  The observers `ticks` and    *)
(* `cycles` stop counting at MaxTicks; the program goes on: past that      *)
(* count a pending timeout fires as before and the tick is not counted; a  *)
(* cursor that has run past the end of its message, where it can only grow *)
(* and change nothing, is followed MaxOverrun characters further.  A       *)
(* timeout that is pending fires, and the document's load events are       *)
(* dispatched.  The clicks are not followed here: their handlers read and  *)
(* write none of the variables of typeStatus, and what can delay a         *)
(* timeout, a queued .catch reaction or a click on its way to the body,    *)
(* only exists after a click.                                              *)
(***************************************************************************)
StatusTimerFireUncounted ==
    /\ statusPending > 0
    /\ TaskMayStart
    /\ ticks = MaxTicks
    /\ charIndex <= Len(At(logMessages, messageIndex)) + MaxOverrun
    /\ LET r == typeStatusOf(page, logMessages,
                             [messageIndex |-> messageIndex, charIndex |-> charIndex,
                              isDeleting |-> isDeleting])
       IN  /\ messageIndex' = r.messageIndex
           /\ charIndex' = r.charIndex
           /\ isDeleting' = r.isDeleting
           /\ statusText' = r.text
           /\ statusTimer' = r.delay
           /\ statusPending' = (statusPending - 1) + r.timeouts
    /\ UNCHANGED <<page, dispatching, heartVars, promiseVars, loaded, logMessages, cycles, ticks,
                   sceneVars, mediaVars, hisVars, expVars>>

NextLive ==
    \/ DOMContentLoaded_Rubaisha
    \/ WindowOnload
    \/ DOMContentLoaded_Hisham
    \/ IntroTimerFire
    \/ FadeTimerFire
    \/ StatusTimerFire
    \/ StatusTimerFireUncounted
    \/ DOMContentLoaded_Experiment
    \/ RevealTimerFire

Fairness ==
    /\ WF_vars(StatusTimerFire)
    /\ WF_vars(StatusTimerFireUncounted)
    /\ WF_vars(DOMContentLoaded_Rubaisha)
    /\ WF_vars(DOMContentLoaded_Hisham)
    /\ WF_vars(IntroTimerFire)
    /\ WF_vars(FadeTimerFire)
    /\ WF_vars(DOMContentLoaded_Experiment)
    /\ WF_vars(RevealTimerFire)

SpecLive == Init /\ [][NextLive]_vars /\ Fairness

\* Length of the longest queue of the model.
MaxQueueLen == Max(Max(Len(RubaishaMessages), Len(HishamMessages)), MaxQueue)

\* Message k of the queue is on display in full, as the message under the
\* cursor (on the Hisham page a one-character message is on display in full
\* on the tick that already moves the cursor on).
Displayed(k) ==
    IF page \in TypewriterPages /\ k < Len(logMessages)
    THEN /\ Ticked
         /\ statusText = At(logMessages, k)
         /\ \/ messageIndex = k
            \/ messageIndex = (k + 1) % Len(logMessages) /\ charIndex = 0
    ELSE FALSE

Successor(k) == IF k < Len(logMessages) THEN (k + 1) % Len(logMessages) ELSE 0

\* The queue holds no empty message.
AllNonEmpty == \A i \in 1..Len(logMessages) : logMessages[i] # ""

\* Index of the first empty message of the queue (0 if there is none).
RECURSIVE FirstEmptyFrom(_)
FirstEmptyFrom(k) ==
    IF k >= Len(logMessages) - 1 \/ At(logMessages, k) = "" THEN k
    ELSE FirstEmptyFrom(k + 1)

C13_OneCharacterPerTick ==
    [][(page \in TypewriterPages /\ charIndex' # charIndex) =>
          /\ ~isDeleting => Len(statusText') = Len(statusText) + 1
          /\ isDeleting => Len(statusText') = Len(statusText) - 1
          /\ (~isDeleting /\ isDeleting') <=>
                (~isDeleting /\ charIndex' = Len(currentMessageNow))
          /\ (isDeleting /\ ~isDeleting') <=> (isDeleting /\ charIndex' = 0)]_vars

\* C14, as claimed, on the Rubaisha page: with the queue ["a", "bb"] the
\* display is "a" after 1 tick, with a further typing tick 100 ms later;
\* after 2 ticks isDeleting has become true and the 2000 ms pause follows;
\* after the deletion tick that follows the display is "" and the cursor is
\* on "bb".
C14_ScenarioAsClaimed ==
    (page = "Rubaisha" /\ logMessages = ScenarioQueue) =>
        /\ ticks = 1 => (statusText = "a" /\ ~isDeleting /\ statusTimer = 100)
        /\ ticks = 2 => (isDeleting /\ statusTimer = 2000)
        /\ ticks = 3 => (statusText = "" /\ messageIndex = 1)

\* C14, amended: with the queue ["a", "bb"] the first tick completes "a":
\* charIndex is 1, isDeleting is true and the 2000 ms pause follows; the
\* second tick is the deletion tick: charIndex is 0, isDeleting is false, the
\* cursor is on "bb" and the next tick follows after 100 ms.  On the Rubaisha
\* page the display is "a" after the first tick and "" after the second.
C14_ScenarioAmended ==
    (page \in TypewriterPages /\ logMessages = ScenarioQueue) =>
        /\ ticks = 1 =>
              /\ charIndex = 1 /\ isDeleting /\ messageIndex = 0
              /\ statusTimer = 2000
              /\ page = "Rubaisha" => statusText = "a"
        /\ ticks = 2 =>
              /\ charIndex = 0 /\ ~isDeleting /\ messageIndex = 1
              /\ statusTimer = 100
              /\ page = "Rubaisha" => statusText = ""
        /\ ticks = 3 =>
              /\ charIndex = 1 /\ ~isDeleting /\ messageIndex = 1
              /\ page = "Rubaisha" => statusText = "b"

\* The scenario after its second tick on the Rubaisha page.
C14_Witness ==
    /\ page = "Rubaisha"
    /\ logMessages = ScenarioQueue
    /\ ticks = 2
    /\ messageIndex = 1
    /\ statusText = ""

\* What a typewriter tick may change, and what the scene handlers may change.
TypewriterState == <<messageIndex, charIndex, isDeleting, statusText>>
SceneState ==
    <<currentScene, sceneImage, dialogueBox, nextBtnDisplay, nextBtnOnclick,
      openingScreen, gameContainer>>

\* C15: logMessages and scenes never change; a typewriter tick (a step that
\* moves charIndex) leaves the scene chain, currentScene and the scene
\* display as they were and calls showScene for nothing; a step that calls
\* showScene or changes currentScene or the scene display (the start and
\* continue handlers, window.onload) leaves the typewriter's cursors, its
\* text and its timer as they were.
C15_DriversShareNoState ==
    [][/\ logMessages' = logMessages
       /\ scenes' = scenes
       /\ TypewriterState' # TypewriterState =>
             /\ charIndex' # charIndex
             /\ UNCHANGED <<SceneState, shown, clicks, windowLoaded, plays>>
       /\ (SceneState' # SceneState \/ shown' # shown \/ clicks' # clicks) =>
             UNCHANGED <<TypewriterState, statusTimer, statusPending, cycles>>]_vars

\* Both drivers have acted: a scene was continued to and a message was typed
\* and deleted.
C15_Witness ==
    /\ page = "Rubaisha"
    /\ clicks >= 1
    /\ Len(shown) >= 2
    /\ cycles >= 1
    /\ currentScene # 0

\* C16: on the Hisham page the lines written to the preloader are always the
\* first lineIndex intro lines, each once and in list order, one per call of
\* typeIntro with the next call 800 ms later; startMainContent runs at most
\* once, and when it has run all intro lines were shown, the fade-out was
\* started and its 1000 ms timeout has fired; until then no typewriter
\* timeout is pending, the status text is untouched, the first-interaction
\* listener is not registered, the song was never played and the heart was
\* never clicked; under fair timers startMainContent eventually runs.
C16_PreloaderThenMain ==
    /\ [](page = "Hisham" =>
            /\ introLog = SubSeq(introLines, 1, lineIndex)
            /\ mainStarts <= 1
            /\ mainStarted <=> mainStarts = 1
            /\ mainStarted =>
                  /\ introLog = introLines
                  /\ preloaderFade
                  /\ preloaderDisplay = "none"
                  /\ introTimer = 0
            /\ ~mainStarted =>
                  /\ statusPending = 0
                  /\ ~Ticked
                  /\ statusText = ""
                  /\ charIndex = 0
                  /\ ~onceArmed
                  /\ songPaused
                  /\ playBtnText = "Play Song"
                  /\ plays = NoPlays
                  /\ heartClicks = 0
                  /\ heartPending = 0
                  /\ ~heartBeating
                  /\ dispatching = "")
    /\ [][(page = "Hisham" /\ introLog' # introLog) =>
             /\ introLog' = Append(introLog, At(introLines, lineIndex))
             /\ preloaderText' = At(introLines, lineIndex)
             /\ introTimer' = IntroDelay]_vars
    /\ [][mainStarts' # mainStarts =>
             /\ introTimer = FadeDelay
             /\ lineIndex = Len(introLines)
             /\ mainStarts' = 1]_vars
    /\ [](page = "Hisham" => <>mainStarted)

\* The main content has been started after the whole intro.
C16_Witness ==
    /\ page = "Hisham"
    /\ mainStarts = 1
    /\ introLog = introLines
    /\ preloaderText = At(introLines, Len(introLines) - 1)
    /\ preloaderDisplay = "none"
    /\ Ticked

(***************************************************************************)
(* Properties of the Hisham music player                                   *)
(***************************************************************************)
\* No play() call on the song was refused so far.  (A rejection that comes
\* after the call was accepted leaves song.paused as it finds it.)
NoPlaybackFailure == ~songRefused

\* C17, as claimed: on the Hisham page, as long as no play() was refused,
\* the label is "Pause Song" exactly when the song is not paused and "Play
\* Song" exactly when it is paused.
C17_LabelMatchesPlayback ==
    (page = "Hisham" /\ NoPlaybackFailure) =>
        /\ playBtnText = "Pause Song" <=> ~songPaused
        /\ playBtnText = "Play Song" <=> songPaused

\* C17, amended: on the Hisham page, as long as no play() was refused, the
\* label is "Pause Song" exactly when the song is not paused or has played to
\* its end since it was last started, and "Play Song" otherwise; the
\* first-interaction listener, once it has run, is never registered again
\* and a later click outside the button changes nothing; a first click that
\* lands on the play/pause button starts the song with exactly one play()
\* call, and when that click then reaches document.body the listener is
\* removed and starts or toggles nothing.
C17_LabelMatchesPlaybackAmended ==
    /\ []((page = "Hisham" /\ NoPlaybackFailure) =>
            /\ playBtnText = "Pause Song" <=> (~songPaused \/ songEnded)
            /\ playBtnText = "Play Song" <=> (songPaused /\ ~songEnded)
            /\ songEnded => songPaused)
    /\ [][onceArmed' => (onceArmed \/ ~mainStarted)]_vars
    /\ [][(~onceArmed /\ \E outcome \in PlayOutcomes : BodyClick(outcome)) =>
             UNCHANGED <<songPaused, playBtnText, plays, console>>]_vars
    /\ [][(onceArmed /\ PlayBtnClick("ok")) =>
             /\ ~songPaused'
             /\ playBtnText' = "Pause Song"
             /\ plays' = Played(plays, "background-song")
             /\ dispatching' = "play-pause-btn"]_vars
    /\ [][(dispatching # "" /\ dispatching' = "") => ~onceArmed']_vars
    /\ [][(dispatching = "play-pause-btn" /\ dispatching' = "") =>
             UNCHANGED <<songPaused, playBtnText, plays, playPending, catchJobs,
                         console>>]_vars

\* The song was started, paused and started again, and has then played to
\* its end; the first-interaction listener is gone.
C17_Witness ==
    /\ page = "Hisham"
    /\ NoPlaybackFailure
    /\ ~onceArmed
    /\ plays["background-song"] >= 2
    /\ songEnded
    /\ songPaused
    /\ playBtnText = "Pause Song"

(***************************************************************************)
(* The whole event loop under fair timers: the steps are those of Next.  A *)
(* click may come or not at any moment its listener exists; a pending      *)
(* timeout fires, a load event is dispatched, a click that has run the     *)
(* listener of its target goes on to document.body, a queued .catch        *)
(* reaction and a rejection queued by pause() run.  Whether a pending      *)
(* play() promise is ever settled is left open.                            *)
(***************************************************************************)
FairnessNext ==
    /\ WF_vars(DOMContentLoaded_Rubaisha)
    /\ WF_vars(DOMContentLoaded_Hisham)
    /\ WF_vars(DOMContentLoaded_Experiment)
    /\ WF_vars(StatusTimerFire)
    /\ WF_vars(IntroTimerFire)
    /\ WF_vars(FadeTimerFire)
    /\ WF_vars(RevealTimerFire)
    /\ WF_vars(HeartTimerFire)
    /\ WF_vars(PlayAborted)
    /\ WF_vars(CatchJob)
    /\ WF_vars(dispatching # "" /\ \E outcome \in PlayOutcomes : BodyClick(outcome))

SpecFair == Init /\ [][Next]_vars /\ FairnessNext

\* C18: whenever no removal timeout is pending the heart is not beating and
\* the container does not glitch, however the clicks and the timeouts
\* interleave; the classes are only ever set by a click, which leaves a
\* timeout pending; under fair timers a beating heart stops beating again
\* and after the last click the effect is gone for good.
C18_HeartEffectRemoved ==
    /\ [](heartPending = 0 => (~heartBeating /\ ~screenGlitch))
    /\ [](screenGlitch => (page = "Hisham" /\ mainStarted))
    /\ [][(heartBeating' /\ ~heartBeating) => heartPending' = heartPending + 1]_vars
    /\ (heartBeating ~> ~heartBeating)
    /\ <>[](heartPending = 0 /\ ~heartBeating /\ ~screenGlitch)

\* Two clicks whose removal timeouts overlap: the timeout of the first click
\* has removed the classes the second click set, the timeout of the second
\* is still pending.
C18_Witness ==
    /\ page = "Hisham"
    /\ heartClicks = MaxHeartClicks
    /\ heartPending = 1
    /\ ~heartBeating
    /\ ~screenGlitch

(***************************************************************************)
(* Properties of the Experiment page                                       *)
(***************************************************************************)
RevealState == <<revealed, revealI, revealTimer>>

\* C19: on the Experiment page the revealed ghost lines are always exactly
\* those with index below i, with 0 <= i <= number of lines; a tick reveals
\* the line of index i and nothing else, and no line is ever hidden again;
\* under fair timers the chain ends with every line revealed and no timer
\* pending; a click on start hides the overlay and leaves the lines, i and
\* the timer as they were.
C19_RevealInOrderAndStop ==
    /\ [](page = "Experiment" =>
            /\ revealI \in 0..ghostCount
            /\ revealed = 0..(revealI - 1))
    /\ [][/\ revealed \subseteq revealed'
          /\ revealI' # revealI =>
                /\ revealI' = revealI + 1
                /\ revealed' = revealed \cup {revealI}
                /\ revealTimer' = RevealDelay]_vars
    /\ [][(\E outcome \in PlayOutcomes : StartClick_Experiment(outcome)) =>
             /\ overlayDisplay' = "none"
             /\ UNCHANGED RevealState]_vars
    /\ [](page = "Experiment" =>
            <>[](/\ revealed = 0..(ghostCount - 1)
                 /\ revealI = ghostCount
                 /\ revealTimer = 0))

\* All lines are revealed, the chain has stopped, and start was clicked while
\* it ran.
C19_Witness ==
    /\ page = "Experiment"
    /\ ghostCount = MaxLines
    /\ revealed = 0..(MaxLines - 1)
    /\ revealTimer = 0
    /\ loaded
    /\ overlayDisplay = "none"

====
